---- MODULE Spec2Model ----
(***************************************************************************)
(* Model of the ENTSO-E generation bot (src/streamlit_app.py): one press   *)
(* of the "Fetch generation data" button.  The date range is resolved,     *)
(* the zone list is built, and every chosen zone is fetched month by month *)
(* with retries (fetch_zone_generation over iter_months); the outcomes are *)
(* collected in results / errors and the UI messages.                      *)
(*                                                                         *)
(* Timestamps are minutes since 2025-01-01 00:00 UTC.  A chunk returned by *)
(* the upstream client is abstracted to the sub-interval it was asked for  *)
(* and whether it carries rows.                                            *)
(*                                                                         *)
(* src/entsoe_bot.py holds the same month loop (lines 36-55) behind        *)
(* parse_query, whose patterns are raw strings with doubled backslashes    *)
(* (r'for\\s+(\\w+)'): they only match text holding literal backslashes,   *)
(* so country_name is None for every ordinary query and line 31 raises     *)
(* before the loop is reached.  Its loop is therefore modelled as the pure *)
(* operator BotChunks only.                                                *)
(***************************************************************************)
EXTENDS Integers, Sequences, FiniteSets, TLC

VARIABLES pc, start_ts, end_ts, chosen_zones, i, cur, s, e, attempt, ncalls,
          frames, yielded, sleeps, lastCall, results, errors, ui, progress,
          workbook, full, hourly, cancel_requested

vars == <<pc, start_ts, end_ts, chosen_zones, i, cur, s, e, attempt, ncalls,
          frames, yielded, sleeps, lastCall, results, errors, ui, progress,
          workbook, full, hourly, cancel_requested>>

\* full and hourly are the locals of lines 210-215, followed step by step only in
\* SpecAsm; cancel_requested is a request from outside to abandon the run, which
\* no line of the program reads
auxVars == <<full, hourly, cancel_requested>>

(***************************************************************************)
(* Bounds of the model.                                                    *)
(***************************************************************************)
\* dates offered to the date inputs: day 15*k after 2025-01-01, k in 0..MaxDayIdx
MaxDayIdx == 4

(***************************************************************************)
(* Program constants.                                                      *)
(***************************************************************************)
max_retries == 5
\* backoff_base = 1.8, kept as the fraction BackoffNum / BackoffDen
BackoffNum == 18
BackoffDen == 10

Min(a, b) == IF a <= b THEN a ELSE b

(***************************************************************************)
(* Calendar: what pd.Timestamp and relativedelta(months=1) compute.        *)
(***************************************************************************)
IsLeap(y) == (y % 4 = 0 /\ y % 100 # 0) \/ y % 400 = 0

DaysInMonth(y, m) ==
    IF m = 2 THEN (IF IsLeap(y) THEN 29 ELSE 28)
    ELSE IF m \in {4, 6, 9, 11} THEN 30 ELSE 31

RECURSIVE DaysBeforeMonth(_, _)
DaysBeforeMonth(y, m) ==
    IF m = 1 THEN 0 ELSE DaysBeforeMonth(y, m - 1) + DaysInMonth(y, m - 1)

RECURSIVE DaysBeforeYear(_)
DaysBeforeYear(y) ==
    IF y <= 2025 THEN 0
    ELSE DaysBeforeYear(y - 1) + (IF IsLeap(y - 1) THEN 366 ELSE 365)

\* day number of the calendar date y-m-d (2025-01-01 is day 0)
ToOrdinal(y, m, d) == DaysBeforeYear(y) + DaysBeforeMonth(y, m) + (d - 1)

Dates == { ymd \in (2025..2026) \X (1..12) \X (1..31) :
             ymd[3] <= DaysInMonth(ymd[1], ymd[2]) }

\* the calendar date of a day number
FromOrdinal(n) == CHOOSE ymd \in Dates : ToOrdinal(ymd[1], ymd[2], ymd[3]) = n

\* pd.Timestamp(<date> + " 00:00", tz="UTC") / pd.Timestamp(<date> + " 23:59", tz="UTC")
DayStart(day) == day * 1440
DayEnd(day) == day * 1440 + 23 * 60 + 59

\* ts + relativedelta(months=1): next month, day clipped to that month's length,
\* time of day kept
AddMonthFull(ts) ==
    LET day == ts \div 1440
        tod == ts % 1440
        ymd == FromOrdinal(day)
        y2  == IF ymd[2] = 12 THEN ymd[1] + 1 ELSE ymd[1]
        m2  == IF ymd[2] = 12 THEN 1 ELSE ymd[2] + 1
        d2  == Min(ymd[3], DaysInMonth(y2, m2))
    IN  ToOrdinal(y2, m2, d2) * 1440 + tod

\* the days the model feeds to the date inputs
Days == { 15 * k : k \in 0..MaxDayIdx }

\* relativedelta(months=1) tabulated over the timestamps a run can hold
AddMonthTable ==
    [ts \in UNION { {DayStart(d), DayEnd(d)} : d \in 0..(15 * MaxDayIdx + 31) }
        |-> AddMonthFull(ts)]

AddMonth(ts) == AddMonthTable[ts]

(***************************************************************************)
(* Catalog (the part of COUNTRIES / ZONE_LABELS the model runs on).        *)
(***************************************************************************)
CountryNames == {"Denmark", "France"}

COUNTRIES ==
    [c \in CountryNames |->
        IF c = "Denmark"
        THEN [total |-> <<"DK">>, zones |-> <<"DK_1", "DK_2">>]
        ELSE [total |-> <<"FR">>, zones |-> <<"FR">>]]

ZONE_LABELS ==
    [z \in {"DK_1", "DK_2", "FR", "DK"} |->
        CASE z = "DK_1" -> "DK1"
          [] z = "DK_2" -> "DK2"
          [] z = "FR"   -> "France (Total)"
          [] z = "DK"   -> "Denmark (Total)"]

\* ZONE_LABELS.get(zone_code, zone_code)
zone_label(zone_code) ==
    IF zone_code \in DOMAIN ZONE_LABELS THEN ZONE_LABELS[zone_code] ELSE zone_code

Range(q) == { q[k] : k \in 1..Len(q) }

\* [f(x) for x in q]
RECURSIVE MapLabel(_)
MapLabel(q) ==
    IF q = <<>> THEN <<>> ELSE <<zone_label(Head(q))>> \o MapLabel(Tail(q))

\* the sequences without repetition over a set (a multiselect's possible values)
RECURSIVE Arrangements(_)
Arrangements(S) ==
    {<<>>} \cup UNION { { <<x>> \o q : q \in Arrangements(S \ {x}) } : x \in S }

\* label_to_code[lbl] for a label of zones_for_country
CodeOfLabel(zones, lbl) == CHOOSE z \in Range(zones) : zone_label(z) = lbl

RECURSIVE CodesOfLabels(_, _)
CodesOfLabels(zones, lbls) ==
    IF lbls = <<>> THEN <<>>
    ELSE <<CodeOfLabel(zones, Head(lbls))>> \o CodesOfLabels(zones, Tail(lbls))

\* for d in total_for_country: if d not in chosen_zones: chosen_zones.append(d)
RECURSIVE AppendMissing(_, _)
AppendMissing(chosen, total) ==
    IF total = <<>> THEN chosen
    ELSE AppendMissing(IF Head(total) \in Range(chosen) THEN chosen
                       ELSE Append(chosen, Head(total)),
                       Tail(total))

\* lines 299-311: the zone list of a run
ResolveZones(country, fetch_all, selected_zone_labels, include_total) ==
    LET zones_for_country == COUNTRIES[country].zones
        total_for_country == COUNTRIES[country].total
        picked == IF fetch_all THEN zones_for_country
                  ELSE CodesOfLabels(zones_for_country, selected_zone_labels)
    IN  IF include_total THEN AppendMissing(picked, total_for_country) ELSE picked

(***************************************************************************)
(* Date resolution.  A typed text is abstracted to the list of substrings  *)
(* the pattern \d{4}-\d{2}-\d{2} finds in it; each is a day of Days or     *)
(* BadDate, a match that is no calendar date (2025-02-30).  The picker     *)
(* gives a tuple of one or two dates.                                      *)
(***************************************************************************)
BadDate == [valid |-> FALSE, day |-> 0]

DateTokens == { [valid |-> TRUE, day |-> d] : d \in Days } \cup {BadDate}

TextInputs ==
    {[blank |-> TRUE, matches |-> <<>>]} \cup
    {[blank |-> FALSE, matches |-> m] :
        m \in {<<>>} \cup { <<a>> : a \in DateTokens } \cup (DateTokens \X DateTokens)}

WidgetInputs == { <<a>> : a \in Days } \cup (Days \X Days)

Failure(msg) == [ok |-> FALSE, err |-> msg, start |-> 0, end |-> 0]

\* lines 165-166 of parse_date_text
EndBeforeStart(start, end) == end < start

\* parse_date_text: (start, end) or the ValueError it raises
parse_date_text(matches) ==
    IF Len(matches) < 2
    THEN Failure("Please provide two dates in YYYY-MM-DD format.")
    ELSE IF ~matches[1].valid \/ ~matches[2].valid
    THEN Failure("could not convert string to Timestamp")
    ELSE LET start == DayStart(matches[1].day)
             end   == DayEnd(matches[2].day)
         IN  IF EndBeforeStart(start, end)
             THEN Failure("End date is before start date.")
             ELSE [ok |-> TRUE, err |-> "", start |-> start, end |-> end]

\* lines 285-297: the range of a run, or the error shown before st.stop()
ResolveDates(date_text, date_widget) ==
    IF ~date_text.blank
    THEN parse_date_text(date_text.matches)
    ELSE IF Len(date_widget) = 2
         THEN [ok |-> TRUE, err |-> "",
               start |-> DayStart(date_widget[1]), end |-> DayEnd(date_widget[2])]
         ELSE Failure("Please select a start and end date.")

(***************************************************************************)
(* Data frames.  A chunk is the sub-interval it answers and whether it has *)
(* rows; an assembled frame is the list of the sub-intervals whose rows it *)
(* was built from, in concatenation order.                                 *)
(***************************************************************************)
EmptyDF == [parts |-> <<>>]

\* what the client may return without raising
Returns == {"rows", "empty", "none"}

\* lines 193-197: the frame appended for a returned value
Chunk(ret, lo, hi) == [s |-> lo, e |-> hi, rows |-> (ret = "rows")]

RECURSIVE Concat(_)
Concat(fs) ==
    IF fs = <<>> THEN <<>>
    ELSE (IF Head(fs).rows THEN <<<<Head(fs).s, Head(fs).e>>>> ELSE <<>>) \o Concat(Tail(fs))

\* lines 207-216: the frame fetch_zone_generation returns
Assemble(fs) ==
    IF fs = <<>> THEN EmptyDF
    ELSE LET joined == Concat(fs)
         IN  IF joined = <<>> THEN EmptyDF ELSE [parts |-> joined]

\* results[lbl] = df on a dict kept in insertion order
DictSet(d, k, v) ==
    IF \E n \in 1..Len(d) : d[n].lbl = k
    THEN [n \in 1..Len(d) |-> IF d[n].lbl = k THEN [lbl |-> k, df |-> v] ELSE d[n]]
    ELSE Append(d, [lbl |-> k, df |-> v])

Keys(d) == { d[n].lbl : n \in 1..Len(d) }

NoCall == [domain |-> "", s |-> 0, e |-> 0, n |-> 0, outcome |-> "", raised |-> FALSE]

(***************************************************************************)
(* State after the script has drawn the page, before the button is used.   *)
(***************************************************************************)
Init ==
    /\ pc = "idle"
    /\ start_ts = 0 /\ end_ts = 0
    /\ chosen_zones = <<>>
    /\ i = 0
    /\ cur = 0 /\ s = 0 /\ e = 0
    /\ attempt = 0 /\ ncalls = 0
    /\ frames = <<>> /\ yielded = <<>> /\ sleeps = <<>>
    /\ lastCall = NoCall
    /\ results = <<>> /\ errors = <<>>
    /\ ui = <<>> /\ progress = <<>>
    /\ workbook = <<>>
    /\ full = <<>> /\ hourly = <<>>
    /\ cancel_requested = FALSE

fetchVars == <<cur, s, e, attempt, ncalls, frames, yielded, sleeps, lastCall>>

(***************************************************************************)
(* The button handler up to the batch loop (lines 283-321).                *)
(***************************************************************************)
\* the date range cannot be resolved: st.error, st.stop
ClickDateError ==
    /\ pc = "idle"
    /\ \E date_text \in TextInputs, date_widget \in WidgetInputs :
         LET r == ResolveDates(date_text, date_widget)
         IN  /\ ~r.ok
             /\ ui' = Append(ui, [kind |-> "error", msg |-> "Date error", arg |-> r.err])
    /\ pc' = "stopped"
    /\ UNCHANGED <<start_ts, end_ts, chosen_zones, i, fetchVars, results, errors, progress, workbook>>
    /\ UNCHANGED auxVars

\* the range is resolved but no zone is chosen: st.warning, st.stop
ClickNoZones ==
    /\ pc = "idle"
    /\ \E date_text \in TextInputs, date_widget \in WidgetInputs,
          country \in CountryNames, include_total \in BOOLEAN :
       \E selected \in Arrangements(Range(MapLabel(COUNTRIES[country].zones))) :
         LET r == ResolveDates(date_text, date_widget)
             z == ResolveZones(country, FALSE, selected, include_total)
         IN  /\ r.ok
             /\ z = <<>>
             /\ start_ts' = r.start /\ end_ts' = r.end
             /\ chosen_zones' = z
    /\ ui' = Append(ui, [kind |-> "warning", msg |-> "No zones selected.", arg |-> ""])
    /\ pc' = "stopped"
    /\ UNCHANGED <<i, fetchVars, results, errors, progress, workbook>>
    /\ UNCHANGED auxVars

\* the batch starts: st.info, progress = st.progress(0), results = {}, errors = []
ClickFetch ==
    /\ pc = "idle"
    /\ \E date_text \in TextInputs, date_widget \in WidgetInputs,
          country \in CountryNames, fetch_all \in BOOLEAN, include_total \in BOOLEAN :
       \E picked \in Arrangements(Range(MapLabel(COUNTRIES[country].zones))) :
         LET r == ResolveDates(date_text, date_widget)
             \* the multiselect is disabled and holds every label under "All zones"
             selected == IF fetch_all THEN MapLabel(COUNTRIES[country].zones) ELSE picked
             z == ResolveZones(country, fetch_all, selected, include_total)
         IN  /\ r.ok
             /\ z # <<>>
             /\ start_ts' = r.start /\ end_ts' = r.end
             /\ chosen_zones' = z
    /\ ui' = Append(ui, [kind |-> "info", msg |-> "Fetching", arg |-> ""])
    /\ progress' = <<[num |-> 0, den |-> 1]>>
    /\ results' = <<>> /\ errors' = <<>>
    /\ i' = 1
    /\ pc' = "target"
    /\ UNCHANGED <<fetchVars, workbook>>
    /\ UNCHANGED auxVars

(***************************************************************************)
(* The batch loop (lines 322-333) around fetch_zone_generation (177-216).  *)
(***************************************************************************)
domain == chosen_zones[i]
lbl == zone_label(domain)

\* for i, domain in enumerate(chosen_zones, start=1): the call of
\* fetch_zone_generation begins: frames = [], the generator starts at start_ts
BeginTarget ==
    /\ pc = "target" /\ i <= Len(chosen_zones)
    /\ frames' = <<>>
    /\ cur' = start_ts
    /\ yielded' = <<>>
    /\ s' = 0 /\ e' = 0 /\ attempt' = 0 /\ ncalls' = 0 /\ sleeps' = <<>>
    /\ lastCall' = NoCall
    /\ pc' = "month"
    /\ UNCHANGED <<start_ts, end_ts, chosen_zones, i, results, errors, ui, progress, workbook>>
    /\ UNCHANGED auxVars

\* iter_months line 171
HasNext(c, end) == c < end

\* NextEnd without the clip to end_ts
NextEndUnclipped(c, end) == AddMonth(c)

\* iter_months line 172
NextEnd(c, end) == Min(AddMonth(c), end)

\* the while loop of entsoe_bot.py (lines 36-55): the (current_start, current_end)
\* pairs it walks through, whatever each query does
RECURSIVE BotChunks(_, _)
BotChunks(current_start, end_date) ==
    IF current_start < end_date
    THEN LET current_end == Min(AddMonth(current_start), end_date)
         IN  <<<<current_start, current_end>>>> \o BotChunks(current_end, end_date)
    ELSE <<>>

\* NextMonth with attempt = 0 set once, before the loop over the sub-intervals
NextMonthKeepsAttempt ==
    /\ pc = "month" /\ HasNext(cur, end_ts)
    /\ s' = cur
    /\ e' = NextEnd(cur, end_ts)
    /\ yielded' = Append(yielded, <<s', e'>>)
    /\ attempt' = attempt /\ ncalls' = 0 /\ sleeps' = <<>>
    /\ pc' = "try"
    /\ UNCHANGED <<start_ts, end_ts, chosen_zones, i, cur, frames, lastCall,
                   results, errors, ui, progress, workbook>>
    /\ UNCHANGED auxVars

\* iter_months yields the next (s, e); attempt = 0
NextMonth ==
    /\ pc = "month" /\ HasNext(cur, end_ts)
    /\ s' = cur
    /\ e' = NextEnd(cur, end_ts)
    /\ yielded' = Append(yielded, <<s', e'>>)
    /\ attempt' = 0 /\ ncalls' = 0 /\ sleeps' = <<>>
    /\ pc' = "try"
    /\ UNCHANGED <<start_ts, end_ts, chosen_zones, i, cur, frames, lastCall,
                   results, errors, ui, progress, workbook>>
    /\ UNCHANGED auxVars

\* EndTurn reporting the turns completed before this one
EndTurnZeroBased ==
    /\ progress' = Append(progress, [num |-> i - 1, den |-> Len(chosen_zones)])
    /\ i' = i + 1
    /\ pc' = "target"

\* progress.progress(i / len(chosen_zones)), then the next loop turn
EndTurn ==
    /\ progress' = Append(progress, [num |-> i, den |-> Len(chosen_zones)])
    /\ i' = i + 1
    /\ pc' = "target"

\* Record with an empty frame stored like any other
RecordAlways(df) ==
    /\ results' = DictSet(results, lbl, df)
    /\ UNCHANGED ui

\* lines 327-330: what the batch loop does with the returned frame
Record(df) ==
    IF df = EmptyDF
    THEN /\ ui' = Append(ui, [kind |-> "warning", msg |-> "No data for", arg |-> lbl])
         /\ UNCHANGED results
    ELSE /\ results' = DictSet(results, lbl, df)
         /\ UNCHANGED ui

\* the generator is exhausted: fetch_zone_generation assembles and returns, and the
\* batch loop records the frame
ReturnFrames ==
    /\ pc = "month" /\ ~HasNext(cur, end_ts)
    /\ Record(Assemble(frames))
    /\ EndTurn
    /\ UNCHANGED <<start_ts, end_ts, chosen_zones, fetchVars, errors, workbook>>
    /\ UNCHANGED auxVars

\* QueryReturns without the break of line 199
QueryReturnsNoBreak ==
    /\ pc = "try"
    /\ \E ret \in Returns :
         /\ frames' = Append(frames, Chunk(ret, s, e))
         /\ lastCall' = [domain |-> domain, s |-> s, e |-> e, n |-> ncalls + 1,
                         outcome |-> ret, raised |-> FALSE]
    /\ ncalls' = ncalls + 1
    /\ pc' = "try"
    /\ UNCHANGED <<start_ts, end_ts, chosen_zones, i, cur, s, e, attempt, yielded, sleeps,
                   results, errors, ui, progress, workbook>>
    /\ UNCHANGED auxVars

\* QueryReturns with an empty or None return counted as a failed attempt
QueryReturnsEmptyRetries ==
    /\ pc = "try"
    /\ \E ret \in Returns :
         /\ lastCall' = [domain |-> domain, s |-> s, e |-> e, n |-> ncalls + 1,
                         outcome |-> ret, raised |-> FALSE]
         /\ IF ret = "rows"
            THEN /\ frames' = Append(frames, Chunk(ret, s, e))
                 /\ cur' = e
                 /\ pc' = "month"
                 /\ UNCHANGED <<attempt, sleeps>>
            ELSE /\ attempt < max_retries
                 /\ attempt' = attempt + 1
                 /\ sleeps' = Append(sleeps, [num |-> 1, den |-> 1])
                 /\ pc' = "try"
                 /\ UNCHANGED <<frames, cur>>
    /\ ncalls' = ncalls + 1
    /\ UNCHANGED <<start_ts, end_ts, chosen_zones, i, s, e, yielded,
                   results, errors, ui, progress, workbook>>
    /\ UNCHANGED auxVars

\* QueryReturns with the chunk put in front of frames
QueryReturnsPrepend ==
    /\ pc = "try"
    /\ \E ret \in Returns :
         /\ frames' = <<Chunk(ret, s, e)>> \o frames
         /\ lastCall' = [domain |-> domain, s |-> s, e |-> e, n |-> ncalls + 1,
                         outcome |-> ret, raised |-> FALSE]
    /\ ncalls' = ncalls + 1
    /\ cur' = e
    /\ pc' = "month"
    /\ UNCHANGED <<start_ts, end_ts, chosen_zones, i, s, e, attempt, yielded, sleeps,
                   results, errors, ui, progress, workbook>>
    /\ UNCHANGED auxVars

\* client.query_generation returns: the chunk is appended, the retry loop is left
QueryReturns ==
    /\ pc = "try"
    /\ \E ret \in Returns :
         /\ frames' = Append(frames, Chunk(ret, s, e))
         /\ lastCall' = [domain |-> domain, s |-> s, e |-> e, n |-> ncalls + 1,
                         outcome |-> ret, raised |-> FALSE]
    /\ ncalls' = ncalls + 1
    /\ cur' = e
    /\ pc' = "month"
    /\ UNCHANGED <<start_ts, end_ts, chosen_zones, i, s, e, attempt, yielded, sleeps,
                   results, errors, ui, progress, workbook>>
    /\ UNCHANGED auxVars

\* the test of line 202 taken one failure early
ExhaustedEarly(a) == a >= max_retries

\* line 202
Exhausted(a) == a > max_retries

\* line 204: backoff_base ** attempt, as a fraction
RECURSIVE Pow(_, _)
Pow(b, n) == IF n = 0 THEN 1 ELSE b * Pow(b, n - 1)

\* the sleep computed from the attempts failed before this one
SleepForPrevious(a) == [num |-> Pow(BackoffNum, a - 1), den |-> Pow(BackoffDen, a - 1)]

\* sleep_s = backoff_base ** attempt, as the fraction (18/10) ** attempt
SleepFor(a) == [num |-> Pow(BackoffNum, a), den |-> Pow(BackoffDen, a)]

\* client.query_generation raises and retries are left: sleep, try again
QueryFailsRetry ==
    /\ pc = "try"
    /\ ~Exhausted(attempt + 1)
    /\ attempt' = attempt + 1
    /\ ncalls' = ncalls + 1
    /\ lastCall' = [domain |-> domain, s |-> s, e |-> e, n |-> ncalls + 1,
                    outcome |-> "error", raised |-> FALSE]
    /\ sleeps' = Append(sleeps, SleepFor(attempt'))
    /\ pc' = "try"
    /\ UNCHANGED <<start_ts, end_ts, chosen_zones, i, cur, s, e, frames, yielded,
                   results, errors, ui, progress, workbook>>
    /\ UNCHANGED auxVars

\* QueryFailsRaise with the chunks fetched so far assembled and kept in results
QueryFailsRaiseKeepsPartial ==
    /\ pc = "try"
    /\ Exhausted(attempt + 1)
    /\ attempt' = attempt + 1
    /\ ncalls' = ncalls + 1
    /\ lastCall' = [domain |-> domain, s |-> s, e |-> e, n |-> ncalls + 1,
                    outcome |-> "error", raised |-> TRUE]
    /\ errors' = Append(errors, [lbl |-> lbl, retries |-> max_retries,
                                 domain |-> domain, s |-> s, e |-> e,
                                 ex |-> "upstream error"])
    /\ results' = IF Assemble(frames) = EmptyDF THEN results
                  ELSE DictSet(results, lbl, Assemble(frames))
    /\ EndTurn
    /\ UNCHANGED <<start_ts, end_ts, chosen_zones, cur, s, e, frames, yielded, sleeps,
                   ui, workbook>>
    /\ UNCHANGED auxVars

\* QueryFailsRaise with the RuntimeError not caught by the batch loop
QueryFailsRaiseUncaught ==
    /\ pc = "try"
    /\ Exhausted(attempt + 1)
    /\ attempt' = attempt + 1
    /\ ncalls' = ncalls + 1
    /\ lastCall' = [domain |-> domain, s |-> s, e |-> e, n |-> ncalls + 1,
                    outcome |-> "error", raised |-> TRUE]
    /\ pc' = "stopped"
    /\ UNCHANGED <<start_ts, end_ts, chosen_zones, i, cur, s, e, frames, yielded, sleeps,
                   results, errors, ui, progress, workbook>>
    /\ UNCHANGED auxVars

\* QueryFailsRaise with the failed sub-interval skipped and the month loop going on
QueryFailsSkip ==
    /\ pc = "try"
    /\ Exhausted(attempt + 1)
    /\ attempt' = attempt + 1
    /\ ncalls' = ncalls + 1
    /\ lastCall' = [domain |-> domain, s |-> s, e |-> e, n |-> ncalls + 1,
                    outcome |-> "error", raised |-> TRUE]
    /\ cur' = e
    /\ pc' = "month"
    /\ UNCHANGED <<start_ts, end_ts, chosen_zones, i, s, e, frames, yielded, sleeps,
                   results, errors, ui, progress, workbook>>
    /\ UNCHANGED auxVars

\* QueryFailsRaise with the failure swallowed and the same target started again
QueryFailsRaiseRestartsTarget ==
    /\ pc = "try"
    /\ Exhausted(attempt + 1)
    /\ attempt' = attempt + 1
    /\ ncalls' = ncalls + 1
    /\ lastCall' = [domain |-> domain, s |-> s, e |-> e, n |-> ncalls + 1,
                    outcome |-> "error", raised |-> TRUE]
    /\ pc' = "target"
    /\ UNCHANGED <<start_ts, end_ts, chosen_zones, i, cur, s, e, frames, yielded, sleeps,
                   results, errors, ui, progress, workbook>>
    /\ UNCHANGED auxVars

\* client.query_generation raises and no retry is left: RuntimeError leaves
\* fetch_zone_generation and the batch loop appends it to errors
QueryFailsRaise ==
    /\ pc = "try"
    /\ Exhausted(attempt + 1)
    /\ attempt' = attempt + 1
    /\ ncalls' = ncalls + 1
    /\ lastCall' = [domain |-> domain, s |-> s, e |-> e, n |-> ncalls + 1,
                    outcome |-> "error", raised |-> TRUE]
    /\ errors' = Append(errors, [lbl |-> lbl, retries |-> max_retries,
                                 domain |-> domain, s |-> s, e |-> e,
                                 ex |-> "upstream error"])
    /\ EndTurn
    /\ UNCHANGED <<start_ts, end_ts, chosen_zones, cur, s, e, frames, yielded, sleeps,
                   results, ui, workbook>>
    /\ UNCHANGED auxVars

(***************************************************************************)
(* After the loop (lines 335-367).                                         *)
(***************************************************************************)
\* the characters of the labels the catalog can produce
\* labels longer than a sheet name may be, as excel_bytes accepts them: the first
\* two agree on their first 31 characters, the third differs from both there
LongLabels ==
    {"Germany-Luxembourg bidding zone (DE_LU)", "Germany-Luxembourg bidding zone (DE_AT_LU)",
     "Italy Centre-North bidding zone (IT_CNOR)"}

LabelText ==
    [l \in {"DK1", "DK2", "France (Total)", "Denmark (Total)"} \cup LongLabels |->
        CASE l = "DK1" -> <<"D", "K", "1">>
          [] l = "DK2" -> <<"D", "K", "2">>
          [] l = "France (Total)" ->
               <<"F", "r", "a", "n", "c", "e", " ", "(", "T", "o", "t", "a", "l", ")">>
          [] l = "Denmark (Total)" ->
               <<"D", "e", "n", "m", "a", "r", "k", " ", "(", "T", "o", "t", "a", "l", ")">>
          [] l = "Germany-Luxembourg bidding zone (DE_LU)" ->
               <<"G", "e", "r", "m", "a", "n", "y", "-", "L", "u", "x", "e", "m", "b", "o",
               "u", "r", "g", " ", "b", "i", "d", "d", "i", "n", "g", " ", "z", "o", "n", "e",
               " ", "(", "D", "E", "_", "L", "U", ")">>
          [] l = "Germany-Luxembourg bidding zone (DE_AT_LU)" ->
               <<"G", "e", "r", "m", "a", "n", "y", "-", "L", "u", "x", "e", "m", "b", "o",
               "u", "r", "g", " ", "b", "i", "d", "d", "i", "n", "g", " ", "z", "o", "n", "e",
               " ", "(", "D", "E", "_", "A", "T", "_", "L", "U", ")">>
          [] l = "Italy Centre-North bidding zone (IT_CNOR)" ->
               <<"I", "t", "a", "l", "y", " ", "C", "e", "n", "t", "r", "e", "-", "N", "o",
               "r", "t", "h", " ", "b", "i", "d", "d", "i", "n", "g", " ", "z", "o", "n", "e",
               " ", "(", "I", "T", "_", "C", "N", "O", "R", ")">>]

SheetNameLimit == 31

\* sheet_name[:31]
SafeName(sheet_name) ==
    SubSeq(LabelText[sheet_name], 1, Min(SheetNameLimit, Len(LabelText[sheet_name])))

\* lines 223-225: the README sheet (the metadata table is not followed)
ReadmeSheet == [name |-> <<"R", "E", "A", "D", "M", "E">>, df |-> EmptyDF]

\* a writer that puts each new worksheet in front of the others
ToExcelInFront(book, safe_name, df) ==
    IF \E k \in 1..Len(book) : book[k].name = safe_name
    THEN [k \in 1..Len(book) |->
            IF book[k].name = safe_name THEN [name |-> safe_name, df |-> df] ELSE book[k]]
    ELSE <<book[1], [name |-> safe_name, df |-> df]>> \o Tail(book)

\* df.to_excel(xw, sheet_name=safe_name): the writer adds a worksheet of that
\* name unless the workbook has one already, and then writes the cells of df
\* from the top-left cell of the worksheet, over whatever it held
ToExcel(book, safe_name, df) ==
    IF \E k \in 1..Len(book) : book[k].name = safe_name
    THEN [k \in 1..Len(book) |->
            IF book[k].name = safe_name THEN [name |-> safe_name, df |-> df] ELSE book[k]]
    ELSE Append(book, [name |-> safe_name, df |-> df])

\* lines 226-231 for the items n.. of the dict, in its order
RECURSIVE WriteSheets(_, _, _)
WriteSheets(book, sheets, n) ==
    IF n > Len(sheets) THEN book
    ELSE WriteSheets(ToExcel(book, SafeName(sheets[n].lbl), sheets[n].df), sheets, n + 1)

\* excel_bytes: the README sheet, then the items of the dict in its order
excel_bytes(sheets) == WriteSheets(<<ReadmeSheet>>, sheets, 1)

Finish ==
    /\ pc = "target" /\ i > Len(chosen_zones)
    /\ LET shown == IF errors # <<>>
                    THEN Append(ui, [kind |-> "expander", msg |-> "Some requests failed",
                                     arg |-> ""])
                    ELSE ui
       IN  IF results = <<>>
           THEN /\ ui' = Append(shown, [kind |-> "warning", msg |-> "No data fetched.",
                                        arg |-> ""])
                /\ pc' = "stopped"
                /\ UNCHANGED workbook
           ELSE /\ ui' = Append(shown, [kind |-> "success", msg |-> "Done!", arg |-> ""])
                /\ workbook' = excel_bytes(results)
                /\ pc' = "done"
    /\ UNCHANGED <<start_ts, end_ts, chosen_zones, i, fetchVars, results, errors, progress>>
    /\ UNCHANGED auxVars

Next ==
    \/ ClickDateError
    \/ ClickNoZones
    \/ ClickFetch
    \/ BeginTarget
    \/ NextMonth
    \/ ReturnFrames
    \/ QueryReturns
    \/ QueryFailsRetry
    \/ QueryFailsRaise
    \/ Finish

Spec == Init /\ [][Next]_vars

\* the steps of the script once the button has been clicked
RunStep ==
    \/ BeginTarget
    \/ NextMonth
    \/ ReturnFrames
    \/ QueryReturns
    \/ QueryFailsRetry
    \/ QueryFailsRaise
    \/ Finish

\* The script is one sequential thread: whenever it has a next statement, it
\* runs it, and a call of client.query_generation or time.sleep comes back
\* (returning or raising).  Nothing obliges the user to click.
FairSpec == Spec /\ WF_vars(RunStep)

(***************************************************************************)
(* A run during which a request to cancel may arrive (SpecCancel).  The    *)
(* request comes from outside while the batch loop of lines 319-333 runs;  *)
(* the loop and fetch_zone_generation have no statement that reads it, so  *)
(* the actions of the run are those of Spec, unchanged.                    *)
(***************************************************************************)
Cancel ==
    /\ pc \in {"target", "month", "try"}
    /\ ~cancel_requested
    /\ cancel_requested' = TRUE
    /\ UNCHANGED <<pc, start_ts, end_ts, chosen_zones, i, fetchVars, results, errors, ui,
                   progress, workbook, full, hourly>>

NextCancel == Next \/ Cancel

SpecCancel == Init /\ [][NextCancel]_vars

(***************************************************************************)
(* The assembly of lines 207-216 on concrete frames (SpecAsm).  Here a     *)
(* frame is the sequence of its rows [ts, val] in index order as stored:   *)
(* ts in minutes (tz-naive UTC), one value column.  An hourly row is       *)
(* [hour, sum, n]: the mean is sum / n, and n = 0 is the NaN of an hour    *)
(* without readings.                                                       *)
(***************************************************************************)
\* timestamps of the rows fed to the assembly: 45 * k minutes, k in 0..MaxSlot
MaxSlot == 3
\* most rows over the chunks of one assembly
MaxRows == 3

RowValues == {10, 30}

RowSet == { [ts |-> 45 * k, val |-> v] : k \in 0..MaxSlot, v \in RowValues }

\* what the month loop can leave in frames when the chunks hold the rows q, in
\* that order: one chunk, or two chunks (either of which may be empty)
AsmFramesOf(q) ==
    {<<q>>} \cup { <<SubSeq(q, 1, k), SubSeq(q, k + 1, Len(q))>> : k \in 0..Len(q) }

\* pd.concat(frames) if len(frames) > 1 else frames[0]
RECURSIVE ConcatRows(_)
ConcatRows(fs) == IF fs = <<>> THEN <<>> ELSE Head(fs) \o ConcatRows(Tail(fs))

RECURSIVE KeepWhere(_, _, _)
KeepWhere(rows, keep, k) ==
    IF k > Len(rows) THEN <<>>
    ELSE (IF keep[k] THEN <<rows[k]>> ELSE <<>>) \o KeepWhere(rows, keep, k + 1)

\* full[~full.index.duplicated(keep="first")]
DropDuplicatedKeepFirst(rows) ==
    KeepWhere(rows,
              [k \in 1..Len(rows) |-> ~\E j \in 1..(k - 1) : rows[j].ts = rows[k].ts],
              1)

\* full[~full.index.duplicated(keep="last")]
DropDuplicatedKeepLast(rows) ==
    KeepWhere(rows,
              [k \in 1..Len(rows) |-> ~\E j \in (k + 1)..Len(rows) : rows[j].ts = rows[k].ts],
              1)

RECURSIVE InsertByTs(_, _)
InsertByTs(sorted, r) ==
    IF sorted = <<>> THEN <<r>>
    ELSE IF r.ts < Head(sorted).ts THEN <<r>> \o sorted
    ELSE <<Head(sorted)>> \o InsertByTs(Tail(sorted), r)

\* .sort_index()
RECURSIVE SortIndex(_)
SortIndex(rows) ==
    IF rows = <<>> THEN <<>>
    ELSE InsertByTs(SortIndex(SubSeq(rows, 1, Len(rows) - 1)), rows[Len(rows)])

HourOf(ts) == (ts \div 60) * 60

RECURSIVE SumVals(_)
SumVals(rows) == IF rows = <<>> THEN 0 ELSE Head(rows).val + SumVals(Tail(rows))

InHour(rows, h) == SelectSeq(rows, LAMBDA r : HourOf(r.ts) = h)

Bucket(rows, h) ==
    [hour |-> h, sum |-> SumVals(InHour(rows, h)), n |-> Len(InHour(rows, h))]

\* a resample that leaves out the hours without readings
ResampleFilledHoursOnly(rows) ==
    LET all == [k \in 1..((HourOf(rows[Len(rows)].ts) - HourOf(rows[1].ts)) \div 60 + 1)
                   |-> Bucket(rows, HourOf(rows[1].ts) + 60 * (k - 1))]
    IN  SelectSeq(all, LAMBDA b : b.n > 0)

\* full.resample("H").mean() on a sorted index: one bin per hour from the hour
\* of the first row to the hour of the last
ResampleHourlyMean(rows) ==
    [k \in 1..((HourOf(rows[Len(rows)].ts) - HourOf(rows[1].ts)) \div 60 + 1)
        |-> Bucket(rows, HourOf(rows[1].ts) + 60 * (k - 1))]

AsmInit ==
    /\ pc = "assemble"
    /\ \E m \in 0..MaxRows :
         \E q \in [1..m -> RowSet] :
            frames \in {<<>>} \cup AsmFramesOf(SubSeq(q, 1, m))
    /\ start_ts = 0 /\ end_ts = 0
    /\ chosen_zones = <<>>
    /\ i = 0
    /\ cur = 0 /\ s = 0 /\ e = 0
    /\ attempt = 0 /\ ncalls = 0
    /\ yielded = <<>> /\ sleeps = <<>>
    /\ lastCall = NoCall
    /\ results = <<>> /\ errors = <<>>
    /\ ui = <<>> /\ progress = <<>>
    /\ workbook = <<>>
    /\ full = <<>> /\ hourly = <<>>
    /\ cancel_requested = FALSE

asmFixed == <<start_ts, end_ts, chosen_zones, i, cur, s, e, attempt, ncalls, frames,
              yielded, sleeps, lastCall, results, errors, ui, progress, workbook,
              cancel_requested>>

\* lines 207-212: the early returns and the concatenation
AsmConcat ==
    /\ pc = "assemble"
    /\ IF frames = <<>>
       THEN /\ pc' = "returned"
            /\ UNCHANGED <<full, hourly>>
       ELSE /\ full' = ConcatRows(frames)
            /\ pc' = IF full' = <<>> THEN "returned" ELSE "dedup"
            /\ UNCHANGED hourly
    /\ UNCHANGED asmFixed

\* line 214
AsmDedupSort ==
    /\ pc = "dedup"
    /\ full' = SortIndex(DropDuplicatedKeepLast(full))
    /\ pc' = "resample"
    /\ UNCHANGED <<hourly, asmFixed>>

\* lines 215-216
AsmResample ==
    /\ pc = "resample"
    /\ hourly' = ResampleHourlyMean(full)
    /\ pc' = "returned"
    /\ UNCHANGED <<full, asmFixed>>

AsmNext == AsmConcat \/ AsmDedupSort \/ AsmResample

SpecAsm == AsmInit /\ [][AsmNext]_vars

(***************************************************************************)
(* excel_bytes on any dict of frames (SpecExcel), sheet by sheet.          *)
(***************************************************************************)
\* most items in the dict handed to excel_bytes
MaxSheets == 3

SheetLabels == {"DK1", "DK2"} \cup LongLabels

SheetFrames == { [parts |-> <<<<DayStart(0), DayEnd(d)>>>>] : d \in {0, 14} }

ExcelInputs ==
    UNION { { [k \in 1..Len(q) |-> [lbl |-> q[k], df |-> f[k]]] :
                f \in [1..Len(q) -> SheetFrames] } :
            q \in { a \in Arrangements(SheetLabels) : Len(a) >= 1 /\ Len(a) <= MaxSheets } }

ExcelInit ==
    /\ pc = "excel"
    /\ results \in ExcelInputs
    /\ start_ts = 0 /\ end_ts = 0
    /\ chosen_zones = <<>>
    /\ i = 0
    /\ cur = 0 /\ s = 0 /\ e = 0
    /\ attempt = 0 /\ ncalls = 0
    /\ frames = <<>>
    /\ yielded = <<>> /\ sleeps = <<>>
    /\ lastCall = NoCall
    /\ errors = <<>>
    /\ ui = <<>> /\ progress = <<>>
    /\ workbook = <<>>
    /\ full = <<>> /\ hourly = <<>>
    /\ cancel_requested = FALSE

excelFixed == <<start_ts, end_ts, chosen_zones, cur, s, e, attempt, ncalls, frames,
                yielded, sleeps, lastCall, results, errors, ui, progress,
                full, hourly, cancel_requested>>

\* lines 221-225
ExcelReadme ==
    /\ pc = "excel"
    /\ workbook' = <<ReadmeSheet>>
    /\ i' = 1
    /\ pc' = "sheets"
    /\ UNCHANGED excelFixed

\* lines 226-236, one item of the dict
ExcelSheet ==
    /\ pc = "sheets" /\ i <= Len(results)
    /\ workbook' = ToExcel(workbook, SafeName(results[i].lbl), results[i].df)
    /\ i' = i + 1
    /\ UNCHANGED <<pc, excelFixed>>

\* line 237
ExcelReturn ==
    /\ pc = "sheets" /\ i > Len(results)
    /\ pc' = "exported"
    /\ UNCHANGED <<i, workbook, excelFixed>>

ExcelNext == ExcelReadme \/ ExcelSheet \/ ExcelReturn

SpecExcel == ExcelInit /\ [][ExcelNext]_vars

(***************************************************************************)
(* Properties.                                                             *)
(***************************************************************************)
Last(q) == q[Len(q)]

\* fetch_zone_generation has just returned normally for target i - 1
Returned == pc = "target" /\ i > 1 /\ ~lastCall.raised

\* q splits [lo, hi) into contiguous pieces of at most one calendar month
ExactSplit(q, lo, hi) ==
    /\ q # <<>>
    /\ q[1][1] = lo
    /\ Last(q)[2] = hi
    /\ \A k \in 1..Len(q) :
         /\ q[k][1] < q[k][2]
         /\ q[k][2] <= AddMonth(q[k][1])
         /\ q[k][2] - q[k][1] <= 31 * 1440
    /\ \A k \in 1..(Len(q) - 1) : q[k][2] = q[k + 1][1]

\* C1: for every range with start < end, once iter_months is exhausted the
\* sub-intervals it yielded are non-empty in number, begin at start, end at end,
\* are contiguous and each at most one calendar month long; the pieces yielded so
\* far are contiguous from start at any time; the loop of entsoe_bot walks through
\* a split with the same properties.
C1_SplitCoversRange ==
    /\ \A k \in 1..Len(yielded) :
         /\ yielded[k][1] = (IF k = 1 THEN start_ts ELSE yielded[k - 1][2])
         /\ yielded[k][1] < yielded[k][2]
         /\ yielded[k][2] <= end_ts
         /\ yielded[k][2] <= AddMonth(yielded[k][1])
    /\ (Returned /\ start_ts < end_ts) => ExactSplit(yielded, start_ts, end_ts)
    /\ (pc = "target" /\ start_ts < end_ts) =>
           ExactSplit(BotChunks(start_ts, end_ts), start_ts, end_ts)

\* a range of three sub-intervals has been walked to its end
C1_Witness ==
    /\ Returned
    /\ Len(yielded) = 3
    /\ Last(yielded)[2] = end_ts
    /\ Len(BotChunks(start_ts, end_ts)) = 3

\* C2 (as stated): at most max_retries underlying calls are made for a
\* sub-interval, and the terminal failure is raised by the max_retries-th failed
\* call, so that the reported count equals the calls made.
C2_AtMostMaxRetriesCalls ==
    /\ ncalls <= max_retries
    /\ lastCall.raised => Last(errors).retries = lastCall.n

\* C2 (amended): at most max_retries + 1 underlying calls are made for a
\* sub-interval (one first call and max_retries retries); the terminal failure is
\* raised by the (max_retries + 1)-th failed call and by no earlier one, and the
\* count it reports, max_retries, is one less than the calls made.
C2_RetriesPlusFirstCall ==
    /\ ncalls <= max_retries + 1
    /\ pc = "try" => (ncalls = attempt /\ attempt <= max_retries)
    /\ lastCall.raised =>
         /\ lastCall.n = max_retries + 1
         /\ Last(errors).retries = max_retries
         /\ Last(errors).retries = lastCall.n - 1
         /\ <<Last(errors).s, Last(errors).e>> = <<lastCall.s, lastCall.e>>

\* a sub-interval has failed terminally
C2_Witness == lastCall.raised /\ ncalls = max_retries + 1 /\ errors # <<>>

\* C3: when the call for a sub-interval has failed k < max_retries times and
\* then returns, the returned chunk is the last of frames, no terminal failure is
\* recorded for the target, the returning call was the (k+1)-th and last call
\* for the sub-interval, and the next call is for a sub-interval without a chunk.
C3_SuccessEndsRetries ==
    /\ (pc = "month" /\ lastCall.n >= 1 /\ attempt < max_retries) =>
         /\ ~lastCall.raised
         /\ lastCall.outcome \in Returns
         /\ frames # <<>>
         /\ Last(frames) = Chunk(lastCall.outcome, lastCall.s, lastCall.e)
         /\ <<lastCall.s, lastCall.e>> = <<s, e>>
         /\ lastCall.n = attempt + 1
         /\ ncalls = lastCall.n
         /\ cur = e
         /\ \A k \in 1..Len(errors) : errors[k].lbl # lbl
    /\ pc = "try" => \A k \in 1..Len(frames) : frames[k].s # s

\* four failures, then the fifth call returns rows
C3_Witness ==
    /\ pc = "month"
    /\ attempt = 4
    /\ lastCall.n = 5
    /\ lastCall.outcome = "rows"
    /\ Last(frames).rows

\* the labels of the targets whose turn is over
Processed == { zone_label(chosen_zones[k]) : k \in 1..(i - 1) }

ErrorLabels == { errors[k].lbl : k \in 1..Len(errors) }

\* the labels a "No data for" warning names
NoDataLabels == { ui[k].arg : k \in { n \in 1..Len(ui) : ui[n].msg = "No data for" } }

SheetNames == { workbook[k].name : k \in 1..Len(workbook) }

\* the batch loop has been left
LoopOver == pc \in {"done", "stopped"} /\ chosen_zones # <<>>

\* the label of the target whose turn has just ended
PrevLabel == zone_label(chosen_zones[i - 1])

\* C4: a target of which one sub-interval fails terminally is in errors with the
\* message naming that sub-interval, and nothing built from the chunks it had
\* already fetched is in results or in the exported workbook: every frame in
\* results, and every sheet, comes from a target that returned for the whole range.
C4_AllOrNothing ==
    /\ \A k \in 1..Len(errors) :
         /\ errors[k].lbl \notin Keys(results)
         /\ LabelText[errors[k].lbl] \notin SheetNames
    /\ lastCall.raised =>
         /\ Last(errors).lbl = PrevLabel
         /\ <<Last(errors).s, Last(errors).e>> = <<lastCall.s, lastCall.e>>
         /\ PrevLabel \notin Keys(results)
    /\ \A k \in 1..Len(results) :
         /\ results[k].df # EmptyDF
         /\ \A n \in 1..Len(results[k].df.parts) :
              start_ts <= results[k].df.parts[n][1] /\ results[k].df.parts[n][2] <= end_ts
    /\ pc = "done" =>
         /\ Len(workbook) = Len(results) + 1
         /\ \A k \in 1..Len(results) :
              workbook[k + 1] = [name |-> LabelText[results[k].lbl], df |-> results[k].df]

\* a later sub-interval fails terminally after an earlier one has returned rows,
\* and the run ends with an export
C4_Witness ==
    /\ pc = "done"
    /\ lastCall.raised
    /\ \E k \in 1..Len(frames) : frames[k].rows
    /\ Len(workbook) >= 2

\* the entries of q are kept, in place, in q2
Extends(q, q2) == Len(q) <= Len(q2) /\ \A k \in 1..Len(q) : q2[k] = q[k]

\* C5: a terminal failure stays inside the batch loop: the loop is left only
\* after the turn of the last target, one progress report per turn; the entries
\* of results and errors, once made, are never changed; and whatever failed
\* before, each target starts from an empty frame list at start_ts with a fresh
\* attempt counter and has its own frame recorded when it returns.
C5_FailureIsolated ==
    [][ /\ (pc' \in {"done", "stopped"} /\ chosen_zones' # <<>>) =>
              /\ i' = Len(chosen_zones') + 1
              /\ Len(progress') = Len(chosen_zones') + 1
              /\ Processed' = ErrorLabels' \cup Keys(results') \cup NoDataLabels'
        /\ pc' \in {"target", "month", "try"} =>
              /\ Len(progress') = i'
              /\ Cardinality(Processed') = i' - 1
              /\ Processed' = ErrorLabels' \cup Keys(results') \cup NoDataLabels'
        /\ pc # "idle" => (Extends(results, results') /\ Extends(errors, errors'))
        /\ (pc = "target" /\ pc' = "month") =>
              /\ i' = i /\ i' <= Len(chosen_zones')
              /\ frames' = <<>> /\ cur' = start_ts /\ yielded' = <<>>
              /\ lastCall' = NoCall
        /\ (pc = "month" /\ pc' = "try") => (attempt' = 0 /\ ncalls' = 0 /\ sleeps' = <<>>)
        /\ (pc = "month" /\ pc' = "target") =>
              /\ i' = i + 1 /\ errors' = errors
              /\ Len(frames) = Len(yielded)
              /\ IF \E k \in 1..Len(frames) : frames[k].rows
                 THEN results' = Append(results, [lbl |-> lbl, df |-> [parts |-> Concat(frames)]])
                 ELSE results' = results
      ]_vars

\* of three targets the second failed terminally and the first and third are in
\* results
C5_Witness ==
    /\ pc = "done"
    /\ Len(chosen_zones) = 3
    /\ ErrorLabels = {zone_label(chosen_zones[2])}
    /\ Keys(results) = {zone_label(chosen_zones[1]), zone_label(chosen_zones[3])}

C7_LaterSubIntervalsFetched ==
    lastCall.raised => Last(yielded)[2] = end_ts

\* C7 (amended): a terminal failure ends the fetch of the whole target: the
\* failed sub-interval is the last one ever asked for in that turn, the turn is
\* over at once with the target in errors, and the next underlying call, if any,
\* belongs to the next target, which starts again at start_ts.
C7_FailureEndsTarget ==
    [][ /\ lastCall'.raised =>
              /\ pc' \in {"target", "done", "stopped"}
              /\ Last(yielded') = <<lastCall'.s, lastCall'.e>>
              /\ Len(frames') = Len(yielded') - 1
              /\ Last(errors').lbl = zone_label(lastCall'.domain)
        /\ (lastCall.raised /\ lastCall' # lastCall) =>
              /\ lastCall' = NoCall
              /\ pc' = "month" /\ cur' = start_ts /\ yielded' = <<>>
              /\ chosen_zones[i'] # lastCall.domain
      ]_vars

\* a terminal failure on a sub-interval that is not the last of the range
C7_Witness ==
    /\ lastCall.raised
    /\ lastCall.e < end_ts
    /\ pc = "target"

\* C8: a call that returns an empty frame or None is a success: the step that
\* takes the return appends a zero-row chunk for the sub-interval, leaves the
\* attempt counter, the sleeps and errors as they are, and moves the month loop
\* on to the end of the sub-interval.
C8_EmptyReturnIsSuccess ==
    [][ (pc = "try" /\ lastCall'.n = ncalls + 1 /\ lastCall'.outcome \in {"empty", "none"}) =>
            /\ frames' = Append(frames, [s |-> s, e |-> e, rows |-> FALSE])
            /\ attempt' = attempt
            /\ sleeps' = sleeps
            /\ errors' = errors
            /\ ~lastCall'.raised
            /\ pc' = "month"
            /\ cur' = e
      ]_vars

\* None is returned on the first call, and an empty frame after two failures
C8_Witness ==
    /\ pc = "month"
    /\ Len(frames) = 2
    /\ ~frames[1].rows /\ ~frames[2].rows
    /\ lastCall.outcome = "empty"
    /\ lastCall.n = 3
    /\ attempt = 2 /\ Len(sleeps) = 2

\* C9: a range with start >= end is rejected with an error shown before any
\* fetch: the run is stopped, no target gets a turn and no outcome is recorded.
C9_InvertedRangeRejected ==
    (pc # "idle" /\ chosen_zones # <<>> /\ start_ts >= end_ts) =>
        /\ pc = "stopped"
        /\ ui # <<>> /\ Last(ui).kind = "error"
        /\ i = 0
        /\ progress = <<>>
        /\ NoDataLabels = {}
        /\ lastCall = NoCall

\* C10: within a target the calls go through the sub-intervals in chronological
\* order: a call is only made for the sub-interval that follows the ones already
\* answered; frames holds one chunk per answered sub-interval in that order; and
\* the recorded frame is built from them in the same order.
C10_ChronologicalOrder ==
    /\ pc = "try" =>
         /\ Len(frames) = Len(yielded) - 1
         /\ <<s, e>> = Last(yielded)
    /\ pc \in {"month", "try"} =>
         /\ \A k \in 1..Len(frames) : <<frames[k].s, frames[k].e>> = yielded[k]
         /\ \A k \in 1..(Len(frames) - 1) : frames[k].e = frames[k + 1].s
         /\ \A k \in 1..Len(frames) : frames[k].s < frames[k].e
         /\ (lastCall.n >= 1 /\ (pc = "month" \/ ncalls >= 1)) =>
                <<lastCall.s, lastCall.e>> = Last(yielded)
    /\ (Returned /\ PrevLabel \in Keys(results)) =>
         LET parts == Last(results).df.parts
         IN  /\ Last(results).lbl = PrevLabel
             /\ parts = Concat(frames)
             /\ \A k \in 1..(Len(parts) - 1) : parts[k][2] <= parts[k + 1][1]

\* three sub-intervals answered with rows, the last one after retries
C10_Witness ==
    /\ Returned
    /\ Len(frames) = 3
    /\ attempt >= 2
    /\ Len(Last(results).df.parts) = 3
    /\ Last(results).lbl = PrevLabel

\* the timestamps of the rows of the chunks
AllTs == UNION { { frames[c][k].ts : k \in 1..Len(frames[c]) } : c \in 1..Len(frames) }

\* the value of timestamp t in the last chunk that has it (its last row there)
LastWritten(t) ==
    LET ci == CHOOSE c \in 1..Len(frames) :
                /\ \E k \in 1..Len(frames[c]) : frames[c][k].ts = t
                /\ \A d \in (c + 1)..Len(frames) :
                      \A k \in 1..Len(frames[d]) : frames[d][k].ts # t
        ki == CHOOSE k \in 1..Len(frames[ci]) :
                /\ frames[ci][k].ts = t
                /\ \A j \in (k + 1)..Len(frames[ci]) : frames[ci][j].ts # t
    IN  frames[ci][ki].val

RECURSIVE SumLastWritten(_)
SumLastWritten(T) ==
    IF T = {} THEN 0
    ELSE LET t == CHOOSE x \in T : TRUE
         IN  LastWritten(t) + SumLastWritten(T \ {t})

\* C11: when a timestamp occurs in several chunks, the series keeps one row for
\* it, with the value of the chunk that is later in interval order, and the mean
\* of its hour is taken over the kept values only: the hour's sum is the sum of
\* the last-written values of the hour's timestamps and its count their number.
C11_LastWriteWins ==
    /\ pc \in {"resample", "returned"} =>
         \A k \in 1..Len(full) : full[k].val = LastWritten(full[k].ts)
    /\ (pc = "resample" \/ (pc = "returned" /\ hourly # <<>>)) =>
         /\ { full[k].ts : k \in 1..Len(full) } = AllTs
         /\ Len(full) = Cardinality(AllTs)
    /\ (pc = "returned" /\ hourly # <<>>) =>
         \A k \in 1..Len(hourly) :
            LET T == { t \in AllTs : HourOf(t) = hourly[k].hour }
            IN  /\ hourly[k].n = Cardinality(T)
                /\ hourly[k].sum = SumLastWritten(T)

\* two chunks hold the same timestamp with different values and the series is out
C11_Witness ==
    /\ pc = "returned"
    /\ Len(frames) = 2
    /\ hourly # <<>>
    /\ \E a \in 1..Len(frames[1]), b \in 1..Len(frames[2]) :
         /\ frames[1][a].ts = frames[2][b].ts
         /\ frames[1][a].val # frames[2][b].val

\* C12: a non-empty assembled series has one row for each hour from the hour of
\* the earliest input timestamp to the hour of the latest, in increasing order
\* without repetition, whatever the order, overlap, spacing or gaps of the input
\* rows; and the series is non-empty as soon as a chunk has a row.
C12_OneRowPerHour ==
    pc = "returned" =>
        /\ (AllTs # {}) <=> (hourly # <<>>)
        /\ hourly # <<>> =>
             /\ \A t \in AllTs : hourly[1].hour <= HourOf(t) /\ HourOf(t) <= Last(hourly).hour
             /\ \E t \in AllTs : HourOf(t) = hourly[1].hour
             /\ \E t \in AllTs : HourOf(t) = Last(hourly).hour
             /\ \A k \in 1..(Len(hourly) - 1) : hourly[k + 1].hour = hourly[k].hour + 60
             /\ \A k \in 1..Len(hourly) : hourly[k].hour % 60 = 0

\* rows out of order, two readings in one hour, and an hour without readings
C12_Witness ==
    /\ pc = "returned"
    /\ Len(hourly) = 3
    /\ hourly[1].n = 2
    /\ hourly[2].n = 0
    /\ \E c \in 1..Len(frames) : \E k \in 1..(Len(frames[c]) - 1) :
          frames[c][k].ts > frames[c][k + 1].ts

\* C13: when excel_bytes returns, every item of the dict has a sheet of its own,
\* named by its label cut to 31 characters and made distinct from the other
\* sheet names, holding its frame: also when two labels agree on their first
\* 31 characters.
C13_CollisionsDisambiguated ==
    pc = "exported" =>
        /\ Len(workbook) = Len(results) + 1
        /\ \A a, b \in 1..Len(workbook) : a # b => workbook[a].name # workbook[b].name
        /\ \A k \in 1..Len(results) :
             \E n \in 2..Len(workbook) :
                /\ workbook[n].df = results[k].df
                /\ Extends(SafeName(results[k].lbl), workbook[n].name)

\* SpecExcel returns exactly what the operator used by the app computes
ExcelStepwiseAgrees == pc = "exported" => workbook = excel_bytes(results)

\* the labels of the requested targets, in the requested order
RequestedLabels == [k \in 1..Len(chosen_zones) |-> zone_label(chosen_zones[k])]

\* those of them that neither failed nor came back without data
SuccessfulLabels ==
    SelectSeq(RequestedLabels, LAMBDA l : l \notin ErrorLabels \cup NoDataLabels)

\* C14: the exported workbook starts with the README sheet and then holds one
\* sheet for each successful target and no other, named by the target's label,
\* in the order in which the targets were requested, whichever of the other
\* targets failed or were empty; and it is the value excel_bytes gives for the
\* results, so equal results give equal sheet names in equal order.
C14_SheetsInRequestedOrder ==
    pc = "done" =>
        /\ workbook[1] = ReadmeSheet
        /\ Len(workbook) = Len(SuccessfulLabels) + 1
        /\ \A k \in 1..Len(SuccessfulLabels) :
             /\ workbook[k + 1].name = SafeName(SuccessfulLabels[k])
             /\ \E n \in 1..Len(results) :
                  results[n].lbl = SuccessfulLabels[k] /\ results[n].df = workbook[k + 1].df
        /\ workbook = excel_bytes(results)

\* three targets, the middle one failed, the other two exported
C14_Witness ==
    /\ pc = "done"
    /\ Len(chosen_zones) = 3
    /\ zone_label(chosen_zones[2]) \in ErrorLabels
    /\ Len(workbook) = 3

\* C15: once a request to cancel has arrived, no further call of
\* client.query_generation is made, for the sub-interval in hand or any later
\* sub-interval or target, and the entries of results and errors made so far
\* stay as they are.
C15_CancelAbandonsRun ==
    [][cancel_requested =>
          /\ ncalls' = ncalls /\ lastCall' = lastCall
          /\ Extends(results, results') /\ Extends(errors, errors')]_vars

\* the batch loop is running or has been left
InBatch == pc \in {"target", "month", "try"} \/ LoopOver

\* C17: after the initial 0, progress is reported once at the end of each
\* target's turn, whether the target succeeded, failed or had no data: the k-th
\* report is k / n for n targets, so the reports strictly increase and the value
\* 1 is reported at the last target and at no other.
C17_ProgressPerTarget ==
    InBatch =>
        /\ Len(progress) = i
        /\ progress[1] = [num |-> 0, den |-> 1]
        /\ \A k \in 1..(i - 1) :
             /\ progress[k + 1] = [num |-> k, den |-> Len(chosen_zones)]
             /\ progress[k].num * progress[k + 1].den < progress[k + 1].num * progress[k].den
             /\ (progress[k + 1].num = progress[k + 1].den) <=> (k = Len(chosen_zones))
        /\ LoopOver => i = Len(chosen_zones) + 1

\* three targets done: one exported, one failed, one without data
C17_Witness ==
    /\ LoopOver
    /\ Len(chosen_zones) = 3
    /\ results # <<>> /\ errors # <<>> /\ NoDataLabels # {}
    /\ Last(progress) = [num |-> 3, den |-> 3]

\* backoff_base to the power n, as a fraction
BackoffPower(n) == [num |-> Pow(BackoffNum, n), den |-> Pow(BackoffDen, n)]

\* C18: within a sub-interval, a failed attempt that is followed by another is
\* followed by exactly one sleep, of backoff_base to the power of the attempts
\* failed so far; there is no sleep before the first attempt, none after the
\* attempt that succeeds and none after the failed attempt that ends the retries.
C18_OneSleepBetweenAttempts ==
    [][/\ (pc = "try" /\ pc' = "try") =>
            /\ ncalls' = ncalls + 1
            /\ lastCall'.outcome = "error"
            /\ sleeps' = Append(sleeps, BackoffPower(ncalls'))
       /\ (pc = "try" /\ pc' # "try") =>
            /\ ncalls' = ncalls + 1
            /\ sleeps' = sleeps
            /\ Len(sleeps) = ncalls
       /\ (pc # "try" /\ pc' = "try") => (sleeps' = <<>> /\ ncalls' = 0)
       /\ (pc # "try" /\ pc' # "try") => sleeps' \in {sleeps, <<>>}]_vars

\* the retries of a sub-interval are used up: six calls, five sleeps between them
C18_Witness ==
    /\ lastCall.raised
    /\ ncalls = max_retries + 1
    /\ Len(sleeps) = max_retries
    /\ sleeps[1] = [num |-> 18, den |-> 10]
    /\ sleeps[2] = [num |-> 324, den |-> 100]
    /\ sleeps[max_retries] = BackoffPower(max_retries)

\* C19: the retry budget belongs to the sub-interval: each sub-interval starts
\* with attempt = 0, attempt counts the failed calls of that sub-interval only,
\* the first sleep of a sub-interval is backoff_base to the power 1, and a
\* sub-interval fails terminally on its own call number max_retries + 1,
\* whatever calls failed for earlier sub-intervals of the target.
C19_BudgetPerSubInterval ==
    [][/\ (pc # "try" /\ pc' = "try") =>
            /\ attempt' = 0
            /\ Len(yielded') = Len(yielded) + 1
       /\ pc' = "try" => (attempt' = ncalls' /\ attempt' <= max_retries)
       /\ sleeps' # <<>> => sleeps'[1] = BackoffPower(1)
       /\ (lastCall' # lastCall /\ lastCall'.raised) =>
            /\ lastCall'.n = max_retries + 1
            /\ <<lastCall'.s, lastCall'.e>> = Last(yielded)
            /\ Len(sleeps) = max_retries]_vars

\* the second sub-interval of a target has used up its own retries after the
\* first one was fetched
C19_Witness ==
    /\ lastCall.raised
    /\ Len(yielded) = 2
    /\ Len(frames) = 1
    /\ lastCall.n = max_retries + 1
    /\ Len(sleeps) = max_retries

\* C20: every run started by a click comes to its end, with the export or with
\* a stop, for every target list, date range and pattern of failing calls.
C20_RunTerminates == (pc # "idle") ~> (pc \in {"done", "stopped"})

\* a run over three targets and two sub-intervals each has ended after terminal
\* failures and empty returns
C20_Witness ==
    /\ pc = "done"
    /\ Len(chosen_zones) = 3
    /\ HasNext(start_ts + 1, end_ts) /\ NextEnd(start_ts, end_ts) < end_ts
    /\ Len(errors) >= 1
    /\ NoDataLabels # {}
====
